---------------------------- MODULE Spec2Model ----------------------------
(***************************************************************************)
(* Model of mcp-graphql's schema index (src/helpers/search.ts) and of the  *)
(* tool handlers that use it (src/index.ts).                               *)
(*                                                                         *)
(* Strings are sequences of one-character strings, so that split('.'),     *)
(* startsWith, slice, toLowerCase, includes and template concatenation are *)
(* computed character by character, as the code computes them.             *)
(***************************************************************************)
EXTENDS Naturals, Sequences, FiniteSets

(***************************************************************************)
(* JavaScript values that are not strings.  A string is a sequence of      *)
(* one-character strings, so these one-element sequences are no string.    *)
(***************************************************************************)
Undefined == <<"undefined">>
NotFound == [elementType |-> "null"]

(***************************************************************************)
(* String primitives.                                                      *)
(***************************************************************************)
startsWith(s, p) ==
    /\ Len(s) >= Len(p)
    /\ \A i \in 1..Len(p) : s[i] = p[i]

slice1(s) == IF Len(s) <= 1 THEN <<>> ELSE SubSeq(s, 2, Len(s))

includes(text, k) ==
    \E off \in 0..(Len(text) - Len(k)) :
        \A i \in 1..Len(k) : text[off + i] = k[i]

RECURSIVE splitFrom(_, _, _, _)
splitFrom(s, sep, i, cur) ==
    IF i > Len(s) THEN <<cur>>
    ELSE IF s[i] = sep THEN <<cur>> \o splitFrom(s, sep, i + 1, <<>>)
    ELSE splitFrom(s, sep, i + 1, Append(cur, s[i]))

split(s, sep) == splitFrom(s, sep, 1, <<>>)

(***************************************************************************)
(* Type references: a named type under a stack of wrappers, outermost      *)
(* first.                                                                  *)
(***************************************************************************)
RECURSIVE printGraphQLType(_)
printGraphQLType(type) ==
    IF type.wrap = <<>> THEN type.name
    ELSE IF Head(type.wrap) = "NonNull"
         THEN printGraphQLType([type EXCEPT !.wrap = Tail(@)]) \o <<"!">>
         ELSE <<"[">> \o printGraphQLType([type EXCEPT !.wrap = Tail(@)]) \o <<"]">>


(***************************************************************************)
(* The input universe: the schemas the loader can supply.  A schema is its *)
(* type map (a sequence, in Object.entries order) and its directive list.  *)
(* Names are GraphQL names, so they hold none of '.', '@', '(' and ')'.    *)
(***************************************************************************)
MaxSize == 4

TypeNames == {<<"A">>, <<"_", "_", "S">>}
FieldNames == {<<"f">>, <<"g">>}
ArgNames == {<<"x">>, <<"y">>}
DirectiveNames == {<<"d">>, <<"A">>}
Kinds == {"OBJECT", "INTERFACE", "UNION", "ENUM", "INPUT_OBJECT", "SCALAR"}
OutputKinds == {"OBJECT", "INTERFACE"}

NamedType(n) == [wrap |-> <<>>, name |-> n]
TypeRefs ==
    { NamedType(<<"I", "D">>),
      [wrap |-> <<"NonNull", "List", "NonNull">>, name |-> <<"A">>] }
ArgTypeRef == [wrap |-> <<"NonNull">>, name |-> <<"I", "D">>]

\* The description each definition carries: a text, the empty string, or none.
DescriptionOf(n) ==
    IF n \in {<<"A">>, <<"x">>} THEN <<"t">>
    ELSE IF n \in {<<"f">>, <<"d">>} THEN <<>>
    ELSE Undefined

ArgDef(n) == [name |-> n, type |-> ArgTypeRef, description |-> DescriptionOf(n)]

RECURSIVE ArgListsWithin(_, _)
ArgListsWithin(budget, used) ==
    {<<>>} \cup
    IF budget = 0 THEN {}
    ELSE UNION { { <<ArgDef(n)>> \o rest :
                     rest \in ArgListsWithin(budget - 1, used \cup {n}) } :
                 n \in ArgNames \ used }

FieldSize(f) == 1 + Len(f.args)

RECURSIVE FieldsSize(_)
FieldsSize(fs) == IF fs = <<>> THEN 0 ELSE FieldSize(Head(fs)) + FieldsSize(Tail(fs))

FieldDefsWithin(budget, used, withArgs) ==
    IF budget = 0 THEN {}
    ELSE { [name |-> n, type |-> t, description |-> DescriptionOf(n), args |-> as] :
             n \in FieldNames \ used, t \in TypeRefs,
             as \in IF withArgs THEN ArgListsWithin(budget - 1, {}) ELSE {<<>>} }

RECURSIVE FieldListsWithin(_, _, _)
FieldListsWithin(budget, used, withArgs) ==
    {<<>>} \cup
    UNION { { <<f>> \o rest :
                rest \in FieldListsWithin(budget - FieldSize(f),
                                          used \cup {f.name}, withArgs) } :
            f \in FieldDefsWithin(budget, used, withArgs) }

TypeSize(t) == 1 + FieldsSize(t.fields)

RECURSIVE TypeMapSize(_)
TypeMapSize(tm) == IF tm = <<>> THEN 0 ELSE TypeSize(Head(tm)) + TypeMapSize(Tail(tm))

FieldListsOfKind(k, budget) ==
    IF k \in OutputKinds THEN FieldListsWithin(budget, {}, TRUE)
    ELSE IF k = "INPUT_OBJECT" THEN FieldListsWithin(budget, {}, FALSE)
    ELSE {<<>>}

TypeDefsWithin(budget, used) ==
    IF budget = 0 THEN {}
    ELSE UNION { { [name |-> n, kind |-> k, description |-> DescriptionOf(n),
                    fields |-> fs] :
                     n \in TypeNames \ used, fs \in FieldListsOfKind(k, budget - 1) } :
                 k \in Kinds }

RECURSIVE TypeMapsWithin(_, _)
TypeMapsWithin(budget, used) ==
    {<<>>} \cup
    UNION { { <<t>> \o rest :
                rest \in TypeMapsWithin(budget - TypeSize(t), used \cup {t.name}) } :
            t \in TypeDefsWithin(budget, used) }

DirectiveSize(d) == 1 + Len(d.args)

DirectiveDefsWithin(budget, used) ==
    IF budget = 0 THEN {}
    ELSE { [name |-> n, description |-> DescriptionOf(n), args |-> as] :
             n \in DirectiveNames \ used, as \in ArgListsWithin(budget - 1, {}) }

RECURSIVE DirectiveListsWithin(_, _)
DirectiveListsWithin(budget, used) ==
    {<<>>} \cup
    UNION { { <<d>> \o rest :
                rest \in DirectiveListsWithin(budget - DirectiveSize(d),
                                              used \cup {d.name}) } :
            d \in DirectiveDefsWithin(budget, used) }

Schemas ==
    UNION { { [typeMap |-> tm, directives |-> ds] :
                ds \in DirectiveListsWithin(MaxSize - TypeMapSize(tm), {}) } :
            tm \in TypeMapsWithin(MaxSize, {}) }

(***************************************************************************)
(* collectSearchableElements                                               *)
(***************************************************************************)
\* x || undefined
OrUndefined(x) == IF x = Undefined \/ x = <<>> THEN Undefined ELSE x

typeKindOf(type) == IF type.kind \in Kinds THEN type.kind ELSE "UNKNOWN"

fieldPath(typeName, fieldName) == typeName \o <<".">> \o fieldName
argumentPath_parentOnly(parentPath, argName) == parentPath
argumentPath(parentPath, argName) == parentPath \o <<"(">> \o argName \o <<")">>
directivePath(directiveName) == <<"@">> \o directiveName

collectedArgs(args) ==
    [i \in 1..Len(args) |->
        [name |-> args[i].name,
         type |-> printGraphQLType(args[i].type),
         description |-> OrUndefined(args[i].description)]]

argumentElements(args, parentPath) ==
    [i \in 1..Len(args) |->
        [elementType |-> "argument",
         name |-> args[i].name,
         parentType |-> parentPath,
         description |-> OrUndefined(args[i].description),
         path |-> argumentPath(parentPath, args[i].name)]]

RECURSIVE outputFieldElements(_, _)
outputFieldElements(typeName, fields) ==
    IF fields = <<>> THEN <<>>
    ELSE LET field == Head(fields) IN
         << [elementType |-> "field",
             name |-> field.name,
             parentType |-> typeName,
             description |-> OrUndefined(field.description),
             path |-> fieldPath(typeName, field.name),
             returnType |-> printGraphQLType(field.type),
             args |-> collectedArgs(field.args)] >>
         \o argumentElements(field.args, fieldPath(typeName, field.name))
         \o outputFieldElements(typeName, Tail(fields))

inputFieldElements(typeName, fields) ==
    [i \in 1..Len(fields) |->
        [elementType |-> "field",
         name |-> fields[i].name,
         parentType |-> typeName,
         description |-> OrUndefined(fields[i].description),
         path |-> fieldPath(typeName, fields[i].name)]]

isMetaName_never(typeName) == FALSE
isMetaName(typeName) == startsWith(typeName, <<"_", "_">>)

typeElements(type) ==
    IF isMetaName(type.name) THEN <<>>
    ELSE << [elementType |-> "type",
             name |-> type.name,
             description |-> OrUndefined(type.description),
             path |-> type.name,
             typeKind |-> typeKindOf(type)] >>
         \o (IF type.kind \in OutputKinds
             THEN outputFieldElements(type.name, type.fields) ELSE <<>>)
         \o (IF type.kind = "INPUT_OBJECT"
             THEN inputFieldElements(type.name, type.fields) ELSE <<>>)

directiveElements(directive) ==
    << [elementType |-> "directive",
        name |-> directive.name,
        description |-> OrUndefined(directive.description),
        path |-> directivePath(directive.name)] >>
    \o argumentElements(directive.args, directivePath(directive.name))

RECURSIVE collectTypes(_)
collectTypes(typeMap) ==
    IF typeMap = <<>> THEN <<>>
    ELSE typeElements(Head(typeMap)) \o collectTypes(Tail(typeMap))

RECURSIVE collectDirectives(_)
collectDirectives(directives) ==
    IF directives = <<>> THEN <<>>
    ELSE directiveElements(Head(directives)) \o collectDirectives(Tail(directives))

collectSearchableElements_directivesFirst(sch) ==
    collectDirectives(sch.directives) \o collectTypes(sch.typeMap)
collectSearchableElements(sch) ==
    collectTypes(sch.typeMap) \o collectDirectives(sch.directives)

(***************************************************************************)
(* getElementDetails                                                       *)
(***************************************************************************)
\* schema.getType(name), schema.getDirective(name), type.getFields()[name]:
\* the definition of that name, or the empty set of candidates when absent.
lookup(defs, name) == { i \in 1..Len(defs) : defs[i].name = name }
has(defs, name) == lookup(defs, name) # {}
get(defs, name) == defs[CHOOSE i \in lookup(defs, name) : TRUE]

detailArgs(args) ==
    [i \in 1..Len(args) |->
        [name |-> args[i].name,
         type |-> printGraphQLType(args[i].type),
         description |-> args[i].description]]

directiveDetails(sch, directiveName) ==
    IF ~has(sch.directives, directiveName) THEN NotFound
    ELSE LET directive == get(sch.directives, directiveName) IN
         [elementType |-> "directive",
          name |-> directive.name,
          description |-> directive.description,
          args |-> detailArgs(directive.args)]

\* The members of a union and the values of an enum are not part of the
\* schemas modelled here: both lists are empty.
typeDetails(sch, name) ==
    IF ~has(sch.typeMap, name) THEN NotFound
    ELSE LET type == get(sch.typeMap, name) IN
         IF type.kind \in OutputKinds
         THEN [elementType |-> "type", name |-> type.name,
               description |-> type.description,
               kind |-> IF type.kind = "OBJECT" THEN "OBJECT" ELSE "INTERFACE",
               fields |-> [i \in 1..Len(type.fields) |->
                   [name |-> type.fields[i].name,
                    type |-> printGraphQLType(type.fields[i].type),
                    description |-> type.fields[i].description,
                    args |-> detailArgs(type.fields[i].args)]]]
         ELSE IF type.kind = "UNION"
         THEN [elementType |-> "type", name |-> type.name,
               description |-> type.description,
               kind |-> "UNION", possibleTypes |-> <<>>]
         ELSE IF type.kind = "ENUM"
         THEN [elementType |-> "type", name |-> type.name,
               description |-> type.description,
               kind |-> "ENUM", values |-> <<>>]
         ELSE IF type.kind = "INPUT_OBJECT"
         THEN [elementType |-> "type", name |-> type.name,
               description |-> type.description,
               kind |-> "INPUT_OBJECT",
               fields |-> [i \in 1..Len(type.fields) |->
                   [name |-> type.fields[i].name,
                    type |-> printGraphQLType(type.fields[i].type),
                    description |-> type.fields[i].description]]]
         ELSE IF type.kind = "SCALAR"
         THEN [elementType |-> "type", name |-> type.name,
               description |-> type.description, kind |-> "SCALAR"]
         ELSE [elementType |-> "type", name |-> type.name,
               description |-> type.description]

fieldOwnerKinds_withInput == {"OBJECT", "INTERFACE", "INPUT_OBJECT"}
fieldOwnerKinds == {"OBJECT", "INTERFACE"}

fieldDetails(sch, typeName, fieldName) ==
    IF ~has(sch.typeMap, typeName) THEN NotFound
    ELSE LET type == get(sch.typeMap, typeName) IN
         IF type.kind \notin fieldOwnerKinds THEN NotFound
         ELSE IF ~has(type.fields, fieldName) THEN NotFound
         ELSE LET field == get(type.fields, fieldName) IN
              [elementType |-> "field",
               name |-> field.name,
               parentType |-> typeName,
               type |-> printGraphQLType(field.type),
               description |-> field.description,
               args |-> detailArgs(field.args)]

getElementDetails_atLeastTwo(p, sch) ==
    LET parts == split(p, ".") IN
    IF Len(parts) = 1
    THEN IF startsWith(parts[1], <<"@">>)
         THEN directiveDetails(sch, slice1(parts[1]))
         ELSE typeDetails(sch, parts[1])
    ELSE fieldDetails(sch, parts[1], parts[2])
getElementDetails(p, sch) ==
    LET parts == split(p, ".") IN
    IF Len(parts) = 1
    THEN IF startsWith(parts[1], <<"@">>)
         THEN directiveDetails(sch, slice1(parts[1]))
         ELSE typeDetails(sch, parts[1])
    ELSE IF Len(parts) = 2
    THEN fieldDetails(sch, parts[1], parts[2])
    ELSE NotFound


(***************************************************************************)
(* searchSchemaElements                                                    *)
(***************************************************************************)
Whitespace == {" ", "\t"}

lowerChar(c) == IF c = "A" THEN "a" ELSE IF c = "B" THEN "b" ELSE c
toLowerCase(s) == [i \in 1..Len(s) |-> lowerChar(s[i])]

\* s.split(/\s+/): the pieces between maximal runs of whitespace, the empty
\* pieces at either end included.
RECURSIVE skipWhitespace(_, _)
skipWhitespace(s, i) ==
    IF i <= Len(s) /\ s[i] \in Whitespace THEN skipWhitespace(s, i + 1) ELSE i

RECURSIVE splitWhitespaceFrom(_, _, _)
splitWhitespaceFrom(s, i, cur) ==
    IF i > Len(s) THEN <<cur>>
    ELSE IF s[i] \in Whitespace
         THEN <<cur>> \o splitWhitespaceFrom(s, skipWhitespace(s, i), <<>>)
         ELSE splitWhitespaceFrom(s, i + 1, Append(cur, s[i]))

splitWhitespace(s) == splitWhitespaceFrom(s, 1, <<>>)

nonEmpty(k) == Len(k) > 0

keywordsOf(q) == SelectSeq(splitWhitespace(toLowerCase(q)), nonEmpty)

\* element.description || ''
OrEmpty(x) == IF x = Undefined THEN <<>> ELSE x

searchableText(element) ==
    toLowerCase(element.name \o <<" ">> \o OrEmpty(element.description))

everyKeyword_some(text, keywords) ==
    \E i \in 1..Len(keywords) : includes(text, keywords[i])
everyKeyword(text, keywords) ==
    \A i \in 1..Len(keywords) : includes(text, keywords[i])

RECURSIVE filterElements(_, _)
filterElements(elems, keywords) ==
    IF elems = <<>> THEN <<>>
    ELSE (IF everyKeyword(searchableText(Head(elems)), keywords)
          THEN <<Head(elems)>> ELSE <<>>)
         \o filterElements(Tail(elems), keywords)

searchSchemaElements_noEmptyGuard(elems, q) ==
    filterElements(elems, keywordsOf(q))
searchSchemaElements(elems, q) ==
    LET keywords == keywordsOf(q) IN
    IF Len(keywords) = 0 THEN <<>>
    ELSE filterElements(elems, keywords)

(***************************************************************************)
(* State.                                                                  *)
(*   schema    the type graph the loader supplies                          *)
(*   elements  the SearchableElement list last collected or searched       *)
(*   path      the path last passed to getElementDetails                   *)
(*   details   what getElementDetails returned for it                      *)
(*   query     the query last passed to searchSchemaElements               *)
(*   results   what searchSchemaElements returned for it                   *)
(*   last      the operation that ran last                                 *)
(*   calls     the search-schema and get-schema-element-details            *)
(*             invocations so far, each with the schema the loader held    *)
(*             when it was asked (supplied) and the tool's result          *)
(*   allowMutations  env.ALLOW_MUTATIONS                                   *)
(*   queryCall the query-graphql invocation: its document, where the       *)
(*             handler stands, the requests it has sent and its result     *)
(***************************************************************************)
VARIABLES schema, elements, path, details, query, results, last,
          calls, allowMutations, queryCall

vars == <<schema, elements, path, details, query, results, last,
          calls, allowMutations, queryCall>>

indexVars == <<elements, path, details, query, results, last>>
NoCall == [pc |-> "idle"]

(***************************************************************************)
(* The index: a schema is collected, then paths are resolved against it.   *)
(* The paths tried are those of the collected elements and FixedPaths.     *)
(***************************************************************************)
FixedPaths ==
    { <<"A">>,
      <<"@", "d">>,
      <<"A", ".", "f">>,
      <<"A", ".", "f", ".", "x">>,
      <<"A", ".", ".", "f">>,
      <<"@", "d", ".", "x", ".", "y">> }

InitIndex ==
    /\ schema \in Schemas
    /\ elements = <<>>
    /\ path = <<>>
    /\ details = NotFound
    /\ query = <<>>
    /\ results = <<>>
    /\ last = "init"
    /\ calls = <<>>
    /\ allowMutations = TRUE
    /\ queryCall = NoCall

Collect ==
    /\ last = "init"
    /\ elements' = collectSearchableElements(schema)
    /\ last' = "collect"
    /\ UNCHANGED <<schema, path, details, query, results, calls, allowMutations, queryCall>>

Resolve ==
    /\ last = "collect"
    /\ \E p \in FixedPaths \cup { elements[i].path : i \in 1..Len(elements) } :
         /\ path' = p
         /\ details' = getElementDetails(p, schema)
    /\ last' = "resolve"
    /\ UNCHANGED <<schema, elements, query, results, calls, allowMutations, queryCall>>

NextIndex == Collect \/ Resolve

SpecIndex == InitIndex /\ [][NextIndex]_vars

(***************************************************************************)
(* The search: an element list and a query are given, and searched.        *)
(***************************************************************************)
MaxElements == 2
MaxQueryLen == 3

QueryChars == {"a", "B", " ", "\t"}

ElementPool ==
    { [elementType |-> "type", name |-> <<"A", "b">>,
       description |-> Undefined, path |-> <<"A", "b">>],
      [elementType |-> "field", name |-> <<"c">>, parentType |-> <<"A", "b">>,
       description |-> <<"c", " ", "B">>, path |-> <<"A", "b", ".", "c">>],
      [elementType |-> "directive", name |-> <<"c">>,
       description |-> Undefined, path |-> <<"@", "c">>] }

ElementLists == UNION { [1..n -> ElementPool] : n \in 0..MaxElements }
Queries == UNION { [1..n -> QueryChars] : n \in 0..MaxQueryLen }
EmptySchema == [typeMap |-> <<>>, directives |-> <<>>]

InitSearch ==
    /\ schema = EmptySchema
    /\ elements \in ElementLists
    /\ path = <<>>
    /\ details = NotFound
    /\ query \in Queries
    /\ results = <<>>
    /\ last = "init"
    /\ calls = <<>>
    /\ allowMutations = TRUE
    /\ queryCall = NoCall

Search ==
    /\ last = "init"
    /\ results' = searchSchemaElements(elements, query)
    /\ last' = "search"
    /\ UNCHANGED <<schema, elements, path, details, query, calls, allowMutations, queryCall>>

NextSearch == Search

SpecSearch == InitSearch /\ [][NextSearch]_vars

(***************************************************************************)
(* The search-schema and get-schema-element-details tools.  Each handler   *)
(* awaits getSchemaForSearch, then computes its result from the schema it  *)
(* got.  The loader's source may change between and during invocations.    *)
(***************************************************************************)
MaxCalls == 2

ServedSchemas ==
    { [typeMap |-> << [name |-> <<"A">>, kind |-> "OBJECT",
                       description |-> DescriptionOf(<<"A">>),
                       fields |-> << [name |-> <<"f">>,
                                      type |-> NamedType(<<"I", "D">>),
                                      description |-> DescriptionOf(<<"f">>),
                                      args |-> <<>>] >>] >>,
       directives |-> <<>>],
      [typeMap |-> << [name |-> <<"A">>, kind |-> "INTERFACE",
                       description |-> DescriptionOf(<<"A">>),
                       fields |-> << [name |-> <<"g">>,
                                      type |-> NamedType(<<"I", "D">>),
                                      description |-> DescriptionOf(<<"g">>),
                                      args |-> <<ArgDef(<<"x">>)>>] >>] >>,
       directives |-> << [name |-> <<"d">>,
                          description |-> DescriptionOf(<<"d">>),
                          args |-> <<>>] >>] }

SearchArguments == { <<"f">>, <<"A", " ", "t">> }
DetailArguments == { <<"A", ".", "f">> }

\* getSchemaForSearch: the schema built from what the source holds now.
getSchemaForSearch_cached(source) ==
    IF \E c \in 1..Len(calls) : calls[c].pc = "done" /\ ~calls[c].result.isError
    THEN calls[CHOOSE c \in 1..Len(calls) :
                 calls[c].pc = "done" /\ ~calls[c].result.isError].supplied
    ELSE source
getSchemaForSearch(source) == source

searchSchemaResult(sch, q) ==
    [isError |-> FALSE,
     results |-> searchSchemaElements(collectSearchableElements(sch), q)]

elementDetailsResult(sch, p) ==
    LET found == getElementDetails(p, sch) IN
    IF found = NotFound
    THEN [isError |-> TRUE, text |-> "Element not found"]
    ELSE [isError |-> FALSE, details |-> found]

InitTools ==
    /\ schema \in ServedSchemas
    /\ elements = <<>>
    /\ path = <<>>
    /\ details = NotFound
    /\ query = <<>>
    /\ results = <<>>
    /\ last = "init"
    /\ calls = <<>>
    /\ allowMutations = TRUE
    /\ queryCall = NoCall

SourceChanges ==
    /\ schema' \in ServedSchemas \ {schema}
    /\ UNCHANGED <<indexVars, calls, allowMutations, queryCall>>

InvokeSearchSchema ==
    /\ Len(calls) < MaxCalls
    /\ \E q \in SearchArguments :
         calls' = Append(calls, [tool |-> "search-schema", arg |-> q,
                                 pc |-> "loading", supplied |-> EmptySchema,
                                 result |-> [isError |-> FALSE]])
    /\ UNCHANGED <<schema, indexVars, allowMutations, queryCall>>

InvokeElementDetails ==
    /\ Len(calls) < MaxCalls
    /\ \E p \in DetailArguments :
         calls' = Append(calls, [tool |-> "get-schema-element-details", arg |-> p,
                                 pc |-> "loading", supplied |-> EmptySchema,
                                 result |-> [isError |-> FALSE]])
    /\ UNCHANGED <<schema, indexVars, allowMutations, queryCall>>

SearchSchemaLoaded ==
    /\ \E c \in 1..Len(calls) :
         /\ calls[c].pc = "loading"
         /\ calls[c].tool = "search-schema"
         /\ calls' = [calls EXCEPT
                        ![c].pc = "done",
                        ![c].supplied = schema,
                        ![c].result =
                            searchSchemaResult(getSchemaForSearch(schema), calls[c].arg)]
    /\ UNCHANGED <<schema, indexVars, allowMutations, queryCall>>

ElementDetailsLoaded ==
    /\ \E c \in 1..Len(calls) :
         /\ calls[c].pc = "loading"
         /\ calls[c].tool = "get-schema-element-details"
         /\ calls' = [calls EXCEPT
                        ![c].pc = "done",
                        ![c].supplied = schema,
                        ![c].result =
                            elementDetailsResult(getSchemaForSearch(schema), calls[c].arg)]
    /\ UNCHANGED <<schema, indexVars, allowMutations, queryCall>>

\* getSchemaForSearch throws: the handler's catch returns an error result.
LoadFails ==
    /\ \E c \in 1..Len(calls) :
         /\ calls[c].pc = "loading"
         /\ calls' = [calls EXCEPT
                        ![c].pc = "done",
                        ![c].result = [isError |-> TRUE, text |-> "Failed"]]
    /\ UNCHANGED <<schema, indexVars, allowMutations, queryCall>>

NextTools ==
    \/ SourceChanges
    \/ InvokeSearchSchema
    \/ InvokeElementDetails
    \/ SearchSchemaLoaded
    \/ ElementDetailsLoaded
    \/ LoadFails

SpecTools == InitTools /\ [][NextTools]_vars

(***************************************************************************)
(* The query-graphql tool.  A document is what parse() makes of the query  *)
(* text: a failure, or a list of definitions.                              *)
(***************************************************************************)
MaxDefinitions == 2

Definitions ==
    { [kind |-> "OperationDefinition", operation |-> "query"],
      [kind |-> "OperationDefinition", operation |-> "mutation"],
      [kind |-> "OperationDefinition", operation |-> "subscription"],
      [kind |-> "FragmentDefinition", operation |-> "none"] }

Documents ==
    { [parses |-> FALSE, definitions |-> <<>>] } \cup
    { [parses |-> TRUE, definitions |-> ds] :
        ds \in UNION { [1..n -> Definitions] : n \in 1..MaxDefinitions } }

Responses == {"not ok", "errors", "data", "throws"}

isMutation_firstOnly(definitions) ==
    /\ definitions[1].kind = "OperationDefinition"
    /\ definitions[1].operation = "mutation"
isMutation(definitions) ==
    \E i \in 1..Len(definitions) :
        /\ definitions[i].kind = "OperationDefinition"
        /\ definitions[i].operation = "mutation"

InitQuery ==
    /\ schema = EmptySchema
    /\ elements = <<>>
    /\ path = <<>>
    /\ details = NotFound
    /\ query = <<>>
    /\ results = <<>>
    /\ last = "init"
    /\ calls = <<>>
    /\ allowMutations \in BOOLEAN
    /\ queryCall = NoCall

\* The handler up to its first await: parse, the mutation gate, fetch().
QueryGraphql ==
    /\ queryCall.pc \in {"idle", "done"}
    /\ \E doc \in Documents :
         queryCall' =
           IF ~doc.parses
           THEN [pc |-> "done", document |-> doc, sent |-> 0,
                 result |-> [isError |-> TRUE, text |-> "Invalid GraphQL query"]]
           ELSE IF isMutation(doc.definitions) /\ ~allowMutations
           THEN [pc |-> "done", document |-> doc, sent |-> 0,
                 result |-> [isError |-> TRUE, text |-> "Mutations are not allowed"]]
           ELSE [pc |-> "awaiting", document |-> doc, sent |-> 1,
                 result |-> [isError |-> FALSE, text |-> "pending"]]
    /\ UNCHANGED <<schema, indexVars, calls, allowMutations>>

\* The handler after fetch() settles.
QueryResponse ==
    /\ queryCall.pc = "awaiting"
    /\ \E r \in Responses :
         queryCall' = [queryCall EXCEPT
            !.pc = "done",
            !.result =
               IF r = "not ok"
               THEN [isError |-> TRUE, text |-> "GraphQL request failed"]
               ELSE IF r = "errors"
               THEN [isError |-> TRUE, text |-> "The GraphQL response has errors"]
               ELSE IF r = "data"
               THEN [isError |-> FALSE, text |-> "data"]
               ELSE [isError |-> TRUE, text |-> "thrown: Failed to execute GraphQL query"]]
    /\ UNCHANGED <<schema, indexVars, calls, allowMutations>>

NextQuery == QueryGraphql \/ QueryResponse

SpecQuery == InitQuery /\ [][NextQuery]_vars

(***************************************************************************)
(* Properties of the index.                                                *)
(***************************************************************************)
Indices(seq) == 1..Len(seq)
DotPositions(p) == { i \in Indices(p) : p[i] = "." }
BeforeDot(p) == SubSeq(p, 1, (CHOOSE i \in DotPositions(p) : TRUE) - 1)
AfterDot(p) == SubSeq(p, (CHOOSE i \in DotPositions(p) : TRUE) + 1, Len(p))
Names(defs) == [i \in Indices(defs) |-> defs[i].name]
IsType(e) == e.elementType = "type"
IsField(e) == e.elementType = "field"
IsArgument(e) == e.elementType = "argument"
IsDirective(e) == e.elementType = "directive"
IsMetaDef(t) == Len(t.name) >= 2 /\ t.name[1] = "_" /\ t.name[2] = "_"
NotMetaDef(t) == ~IsMetaDef(t)
Collected == last \in {"collect", "resolve"}

\* The display form of each type reference of the universe, written out.
Printed(ref) ==
    IF ref = NamedType(<<"I", "D">>) THEN <<"I", "D">>
    ELSE <<"[", "A", "!", "]", "!">>

\* C1: every type, field or directive element's path resolves to a detail
\* record of the same name and the same kind (typeKind for a type, parentType
\* for a field), whatever kind of type owns the field.
C1_PathRoundTrips ==
    last = "resolve" =>
        \A i \in Indices(elements) :
            LET e == elements[i] IN
            (e.path = path /\ ~IsArgument(e)) =>
                /\ details # NotFound
                /\ details.elementType = e.elementType
                /\ details.name = e.name
                /\ IsType(e) => details.kind = e.typeKind
                /\ IsField(e) => details.parentType = e.parentType

\* C2: no two records of a collected list have the same path.
C2_PathsUnique ==
    Collected =>
        \A i, j \in Indices(elements) :
            i # j => elements[i].path # elements[j].path

C2_Witness ==
    /\ last = "collect"
    /\ \E i, j, k, l \in Indices(elements) :
         /\ IsType(elements[i]) /\ IsField(elements[j])
         /\ IsArgument(elements[k]) /\ elements[k].parentType = elements[j].path
         /\ IsDirective(elements[l]) /\ elements[l].name = elements[i].name

FromDirective(e) ==
    IsDirective(e) \/ (IsArgument(e) /\ e.parentType[1] = "@")
NearestTypeBefore(i) ==
    IF \E k \in 1..(i - 1) : IsType(elements[k])
    THEN CHOOSE k \in 1..(i - 1) :
           /\ IsType(elements[k])
           /\ \A m \in (k + 1)..(i - 1) : ~IsType(elements[m])
    ELSE 0
IsOwner(e) == IsField(e) \/ IsDirective(e)
NearestOwnerBefore(i) ==
    IF \E k \in 1..(i - 1) : IsOwner(elements[k])
    THEN CHOOSE k \in 1..(i - 1) :
           /\ IsOwner(elements[k])
           /\ \A m \in (k + 1)..(i - 1) : ~IsOwner(elements[m])
    ELSE 0
ArgumentsOf(parentPath) ==
    Names(SelectSeq(elements, LAMBDA e : IsArgument(e) /\ e.parentType = parentPath))
FieldsOf(typeName) ==
    Names(SelectSeq(elements, LAMBDA e : IsField(e) /\ e.parentType = typeName))
StartsWithMeta(s) == Len(s) >= 2 /\ s[1] = "_" /\ s[2] = "_"
C4_NoMetaTypes ==
    Collected =>
        \A i \in Indices(elements) :
            LET e == elements[i] IN
            /\ IsType(e) => ~StartsWithMeta(e.name)
            /\ (IsField(e) \/ IsArgument(e)) =>
                  ~StartsWithMeta(e.parentType) /\ ~StartsWithMeta(e.path)

C4_Witness ==
    /\ last = "collect"
    /\ elements # <<>>
    /\ \E i \in Indices(schema.typeMap) :
         /\ IsMetaDef(schema.typeMap[i])
         /\ schema.typeMap[i].kind = "OBJECT"
         /\ \E k \in Indices(schema.typeMap[i].fields) :
              schema.typeMap[i].fields[k].args # <<>>

\* C7: a path X.y with exactly one dot resolves to a field record if and
\* only if X is an object or interface type of the schema and y one of its
\* fields; the record then has elementType 'field', name y, parentType X and
\* the printed field type; in every other case the result is not-found.
C7_FieldPath ==
    (last = "resolve" /\ Cardinality(DotPositions(path)) = 1) =>
        LET X == BeforeDot(path)
            y == AfterDot(path)
            owners == { i \in Indices(schema.typeMap) :
                          /\ schema.typeMap[i].name = X
                          /\ schema.typeMap[i].kind \in {"OBJECT", "INTERFACE"}
                          /\ \E k \in Indices(schema.typeMap[i].fields) :
                               schema.typeMap[i].fields[k].name = y }
        IN  IF owners = {} THEN details = NotFound
            ELSE \E i \in owners : \E k \in Indices(schema.typeMap[i].fields) :
                   /\ schema.typeMap[i].fields[k].name = y
                   /\ details.elementType = "field"
                   /\ details.name = y
                   /\ details.parentType = X
                   /\ details.type = Printed(schema.typeMap[i].fields[k].type)

C7_Witness ==
    /\ last = "resolve"
    /\ Cardinality(DotPositions(path)) = 1
    /\ details # NotFound
    /\ details.type = <<"[", "A", "!", "]", "!">>

\* C8: a path with two or more dots, and the path of every collected
\* argument record, resolves to not-found.
C8_ArgumentPathsNotFound ==
    (/\ last = "resolve"
     /\ \/ Cardinality(DotPositions(path)) >= 2
        \/ \E i \in Indices(elements) :
             IsArgument(elements[i]) /\ elements[i].path = path)
    => details = NotFound

C8_Witness ==
    /\ last = "resolve"
    /\ details = NotFound
    /\ \E i, k \in Indices(elements) :
         /\ IsArgument(elements[i]) /\ elements[i].path = path
         /\ IsDirective(elements[k]) /\ elements[k].path = elements[i].parentType

(***************************************************************************)
(* Properties of the search.                                               *)
(***************************************************************************)
\* The tokens of a query: its maximal runs of non-whitespace characters.
IsBlank(q, i) == i < 1 \/ i > Len(q) \/ q[i] \in Whitespace
TokenSpans(q) ==
    { sp \in Indices(q) \X Indices(q) :
        /\ sp[1] <= sp[2]
        /\ \A k \in sp[1]..sp[2] : q[k] \notin Whitespace
        /\ IsBlank(q, sp[1] - 1) /\ IsBlank(q, sp[2] + 1) }
Tokens(q) == { SubSeq(q, sp[1], sp[2]) : sp \in TokenSpans(q) }
Lowered(s) ==
    [i \in Indices(s) |-> CASE s[i] = "A" -> "a" [] s[i] = "B" -> "b" [] OTHER -> s[i]]
IsSubstring(t, text) ==
    \E i \in 1..(Len(text) + 1) : \E j \in 0..Len(text) :
        i <= j + 1 /\ SubSeq(text, i, j) = t
TextOf(e) ==
    Lowered(e.name \o <<" ">> \o (IF e.description = Undefined THEN <<>> ELSE e.description))
MatchesAll(e, tokens) == \A t \in tokens : IsSubstring(Lowered(t), TextOf(e))
LoweredTokens(q) == { Lowered(t) : t \in Tokens(q) }

\* C5: for a query with at least one token, the result is exactly the
\* subsequence of the elements whose lowercased "name description" text
\* holds every lowercased token; so queries with the same tokens in another
\* order or another letter case give the same result.
C5_SearchIsFilter ==
    (last = "search" /\ Tokens(query) # {}) =>
        /\ results = SelectSeq(elements, LAMBDA e : MatchesAll(e, Tokens(query)))
        /\ \A q \in Queries :
             LoweredTokens(q) = LoweredTokens(query) =>
                searchSchemaElements(elements, q) = results

C5_Witness ==
    /\ last = "search"
    /\ Cardinality(Tokens(query)) = 2
    /\ \E i \in Indices(query) : query[i] = "B"
    /\ Len(elements) = 2
    /\ Len(results) = 1
    /\ results[1] = elements[2]

\* C6: an empty or whitespace-only query gives the empty list, whatever the
\* element list.
C6_EmptyQuery ==
    (last = "search" /\ \A i \in Indices(query) : query[i] \in Whitespace) =>
        results = <<>>

C6_Witness ==
    /\ last = "search"
    /\ elements # <<>>
    /\ query = <<" ", "\t">>
    /\ results = <<>>

(***************************************************************************)
(* Properties of the tools.                                                *)
(***************************************************************************)
Loaded(c) == calls[c].pc = "done" /\ (calls[c].result.isError => calls[c].result.text # "Failed")

\* C9: the result of every invocation of search-schema and of
\* get-schema-element-details is the one computed from the schema the loader
\* held when that invocation asked for it, whatever earlier invocations saw.
C9_FreshSchemaPerCall ==
    \A c \in Indices(calls) :
        Loaded(c) =>
            IF calls[c].tool = "search-schema"
            THEN /\ ~calls[c].result.isError
                 /\ calls[c].result.results
                      = searchSchemaElements(
                            collectSearchableElements(calls[c].supplied), calls[c].arg)
            ELSE LET d == getElementDetails(calls[c].arg, calls[c].supplied) IN
                 IF d = NotFound THEN calls[c].result.isError
                 ELSE ~calls[c].result.isError /\ calls[c].result.details = d

C9_Witness ==
    \E c, d \in Indices(calls) :
        /\ c < d
        /\ Loaded(c) /\ Loaded(d)
        /\ calls[c].tool = calls[d].tool
        /\ calls[c].arg = calls[d].arg
        /\ calls[c].supplied # calls[d].supplied
        /\ calls[c].result # calls[d].result

HasMutation(doc) ==
    [kind |-> "OperationDefinition", operation |-> "mutation"]
        \in { doc.definitions[i] : i \in Indices(doc.definitions) }
\* C10: the query-graphql handler sends no request when the query does not
\* parse, or holds a mutation operation while ALLOW_MUTATIONS is false, and
\* returns an isError result; otherwise it sends exactly one request.
C10_MutationGate ==
    queryCall.pc # "idle" =>
        IF ~queryCall.document.parses
              \/ (HasMutation(queryCall.document) /\ ~allowMutations)
        THEN /\ queryCall.sent = 0
             /\ queryCall.pc = "done"
             /\ queryCall.result.isError
        ELSE queryCall.sent = 1

C10_Witness ==
    /\ queryCall.pc = "done"
    /\ ~allowMutations
    /\ queryCall.document.parses
    /\ Len(queryCall.document.definitions) = 2
    /\ queryCall.document.definitions[1].operation = "query"
    /\ queryCall.document.definitions[2].operation = "mutation"
    /\ queryCall.sent = 0
    /\ queryCall.result.isError

=============================================================================
